---- MODULE Spec2Model ----
(***************************************************************************)
(* Ninja Game Simulator (src/main.js): the asset loader and boot sequence, *)
(* the event bus with its two input sources, the action-queue state        *)
(* machine, the animation frame player and the fixed-timestep scheduler.   *)
(*                                                                         *)
(* Time is counted in thirds of a millisecond, so that the fixed step      *)
(* 1000/60 ms is the integer 50; positions are counted in thirds of a      *)
(* pixel, so that speed * dt is an integer as well.  The FPS counter, the  *)
(* HUD texts and the canvas geometry are left out.                         *)
(***************************************************************************)
EXTENDS Integers, Sequences, FiniteSets, TLC

VARIABLES
    bootPc,        \* boot(): "loading" (awaiting loadAnimations), "running", "failed"; "library" when only the loader exists
    images,        \* the Image objects created so far: <<[url, status]>>, an object is its index
    cache,         \* AssetLoader.cache: url -> image object
    resolved,      \* what loadImage promises resolved to: {<<url, image object>>}
    done,          \* loadAnimations: done
    awaiting,      \* loadAnimations: the image object behind the promise it awaits (0: none)
    loadingText,   \* loadingProgress.textContent
    loadingShown,  \* loading.style.display # "none"
    calls,         \* number of direct loadImage calls made by a client of the loader
    state,         \* PlayerController.state
    queue,         \* PlayerController.queue: <<[action, seq]>>, seq numbers the emitted actions
    x, y,          \* PlayerController.x, .y
    anim,          \* AnimationPlayer: [current, loop, frameIndex, accumulator, finished]
    accumulator,   \* Game.accumulator
    lastTs,        \* Game.lastTs
    rafPending,    \* requestAnimationFrame callbacks waiting for the next display refresh
    emitted,       \* number of 'action' events emitted so far
    entered,       \* seq numbers of the actions the last handler entered as controller state, in order
    lastEntered,   \* seq number of the action entered last (0: none yet)
    last,          \* the handler that ran last: [src, arg]
    busLog,        \* the events put on the bus by the handler that ran last
    tickLog        \* what the last _tick did, in order: updates, draw, requestAnimationFrame

loaderVars == <<images, cache, resolved, calls>>
bootVars == <<bootPc, done, awaiting, loadingText, loadingShown>>
playerVars == <<state, queue, x, y, anim, entered, lastEntered>>
gameVars == <<accumulator, lastTs, rafPending>>
traceVars == <<emitted, last, busLog, tickLog>>
vars == <<loaderVars, bootVars, playerVars, gameVars, traceVars>>

-----------------------------------------------------------------------------
(* Scales and bounds *)

UnitsPerMs == 3
UnitsPerPx == 3

MaxEmits == 1          \* 'action' events emitted in one behaviour of Spec
MaxQueueEmits == 2     \* 'action' events emitted in one behaviour of SpecQueue
MaxCapEmits == 14      \* 'action' events emitted in one behaviour of SpecCap
MaxWalkEmits == 4      \* 'action' events emitted in one behaviour of SpecWalk
MaxLiveEmits == 2      \* 'action' events emitted in one behaviour of SpecLive
MaxTs == 400           \* the largest display timestamp, in thirds of a millisecond
MaxCalls == 4          \* direct loadImage calls in one behaviour of SpecLoader
MaxAccumulator == 1000 \* SpecAnim updates a player whose accumulator is at most this

Min(a, b) == IF a < b THEN a ELSE b
Max(a, b) == IF a > b THEN a ELSE b

-----------------------------------------------------------------------------
(* boot: the frame table *)

frames ==
    [idle     |-> <<1, 2, 3, 4, 5, 6, 7, 8>>,
     kick     |-> <<1, 2, 3, 4, 5, 6, 7>>,
     punch    |-> <<1, 2, 3, 4, 5, 6, 7>>,
     backward |-> <<1, 2, 3, 4, 5, 6>>,
     forward  |-> <<1, 2, 3, 4, 5, 6>>,
     block    |-> <<1, 2, 3, 4, 5, 6>>]

\* Object.keys(frames): insertion order
animationKeys == <<"idle", "kick", "punch", "backward", "forward", "block">>

\* `${this.basePath}/${animation}/${frameNumber}.png`
Url(animation, frameNumber) == <<animation, frameNumber>>

RECURSIVE SumLengths(_)
SumLengths(keys) ==
    IF keys = <<>> THEN 0 ELSE Len(frames[Head(keys)]) + SumLengths(Tail(keys))

total == SumLengths(animationKeys)

\* The url requested by the (n+1)-th pass through the inner loop of loadAnimations.
RECURSIVE UrlAt(_, _)
UrlAt(keys, n) ==
    IF n < Len(frames[Head(keys)])
    THEN Url(Head(keys), frames[Head(keys)][n + 1])
    ELSE UrlAt(Tail(keys), n - Len(frames[Head(keys)]))

-----------------------------------------------------------------------------
(* AssetLoader *)

\* this.cache.set(url, img)
CacheSet(c, url, img) ==
    [u \in (DOMAIN c) \cup {url} |-> IF u = url THEN img ELSE c[u]]

\* loadImage(url) on the loader l = [images, cache, resolved]: a cached url resolves at
\* once to the cached object, any other url creates a new Image and starts its load.
\* The result is [loader, img, settled].
LoadImage(l, url) ==
    IF url \in DOMAIN l.cache
    THEN [loader  |-> [l EXCEPT !.resolved = @ \cup {<<url, l.cache[url]>>}],
          img     |-> l.cache[url],
          settled |-> TRUE]
    ELSE [loader  |-> [l EXCEPT !.images = Append(@, [url |-> url, status |-> "loading"])],
          img     |-> Len(l.images) + 1,
          settled |-> FALSE]

\* img.onload: the object enters the cache under its url and the promise resolves to it.
ImgOnLoad(l, img) ==
    [l EXCEPT !.images[img].status = "loaded",
              !.cache = CacheSet(@, l.images[img].url, img),
              !.resolved = @ \cup {<<l.images[img].url, img>>}]

\* mutant of ImgOnError: the failed image is cached like a loaded one
ImgOnErrorCached(l, img) ==
    [l EXCEPT !.images[img].status = "failed",
              !.cache = CacheSet(@, l.images[img].url, img)]

\* img.onerror: the promise rejects, nothing else changes.
ImgOnError(l, img) ==
    [l EXCEPT !.images[img].status = "failed"]

\* Math.round((done / total) * 100) followed by "%"
ProgressText(d, t) == ToString((200 * d + t) \div (2 * t)) \o "%"

FailureText == "Failed to load assets. Check console."

\* loadAnimations on b = [loader, done, awaiting, text]: LoadNext is one pass of the
\* inner loop up to its await, ResumeLoad is the rest of the pass after the await.
\* awaiting = 0 with done = total is the return of the result.
RECURSIVE LoadNext(_), ResumeLoad(_)
LoadNext(b) ==
    IF b.done >= total
    THEN [b EXCEPT !.awaiting = 0]
    ELSE LET r == LoadImage(b.loader, UrlAt(animationKeys, b.done))
         IN  IF r.settled
             THEN ResumeLoad([b EXCEPT !.loader = r.loader, !.awaiting = 0])
             ELSE [b EXCEPT !.loader = r.loader, !.awaiting = r.img]

ResumeLoad(b) ==
    LoadNext([b EXCEPT !.done = @ + 1, !.text = ProgressText(b.done + 1, total)])

-----------------------------------------------------------------------------
(* EventBus: the log of one handler's emits *)

\* bus.emit(eventName, payload) called by the component `by`, as seen by a listener that
\* records every event
Emit(log, by, eventName, payload) ==
    Append(log, [by |-> by, name |-> eventName, payload |-> payload])

-----------------------------------------------------------------------------
(* AnimationPlayer *)

\* Game constructor: frameDurations, in ms
frameDurations ==
    [idle |-> 120, kick |-> 90, punch |-> 90, forward |-> 80, backward |-> 80, block |-> 100]

\* this.animations: the loaded frames of each animation, an image named by its url
animations ==
    [a \in DOMAIN frames |-> [i \in 1..Len(frames[a]) |-> Url(a, frames[a][i])]]

\* AnimationPlayer constructor. The field elapsed is history: the time handed to update
\* since the animation was started, see Elapsed.
NewAnimationPlayer ==
    [current |-> "idle", loop |-> TRUE, frameIndex |-> 0, accumulator |-> 0, finished |-> FALSE,
     elapsed |-> 0]

\* mutant of Play: the new animation starts at the frame index of the old one
PlayKeepFrame(a, animation, loop) ==
    IF animation \notin DOMAIN animations THEN a
    ELSE IF a.current = animation /\ a.loop = loop /\ ~a.finished THEN a
    ELSE [current |-> animation, loop |-> loop, frameIndex |-> a.frameIndex, accumulator |-> 0,
          finished |-> FALSE, elapsed |-> 0]

\* play(animation, { loop })
Play(a, animation, loop) ==
    IF animation \notin DOMAIN animations THEN a
    ELSE IF a.current = animation /\ a.loop = loop /\ ~a.finished THEN a
    ELSE [current |-> animation, loop |-> loop, frameIndex |-> 0, accumulator |-> 0,
          finished |-> FALSE, elapsed |-> 0]

\* mutant of AdvanceFrames: a one-shot holds its last frame and never reports the end
RECURSIVE AdvanceFramesUnfinished(_, _, _)
AdvanceFramesUnfinished(a, frameDuration, length) ==
    IF a.accumulator >= frameDuration
    THEN LET b == [a EXCEPT !.accumulator = @ - frameDuration, !.frameIndex = @ + 1]
         IN  IF b.frameIndex >= length
             THEN IF b.loop
                  THEN AdvanceFramesUnfinished([b EXCEPT !.frameIndex = 0], frameDuration, length)
                  ELSE [b EXCEPT !.frameIndex = length - 1]
             ELSE AdvanceFramesUnfinished(b, frameDuration, length)
    ELSE a

\* mutant of AdvanceFrames: a frame ends only after more than its duration
RECURSIVE AdvanceFramesLate(_, _, _)
AdvanceFramesLate(a, frameDuration, length) ==
    IF a.accumulator > frameDuration
    THEN LET b == [a EXCEPT !.accumulator = @ - frameDuration, !.frameIndex = @ + 1]
         IN  IF b.frameIndex >= length
             THEN IF b.loop
                  THEN AdvanceFramesLate([b EXCEPT !.frameIndex = 0], frameDuration, length)
                  ELSE [b EXCEPT !.frameIndex = length - 1, !.finished = TRUE]
             ELSE AdvanceFramesLate(b, frameDuration, length)
    ELSE a

\* the while loop of update(dtMs); frame indexes count from 0 as in the source
RECURSIVE AdvanceFrames(_, _, _)
AdvanceFrames(a, frameDuration, length) ==
    IF a.accumulator >= frameDuration
    THEN LET b == [a EXCEPT !.accumulator = @ - frameDuration, !.frameIndex = @ + 1]
         IN  IF b.frameIndex >= length
             THEN IF b.loop
                  THEN AdvanceFrames([b EXCEPT !.frameIndex = 0], frameDuration, length)
                  ELSE [b EXCEPT !.frameIndex = length - 1, !.finished = TRUE]
             ELSE AdvanceFrames(b, frameDuration, length)
    ELSE a

\* the whole length of the animation a plays, in thirds of a millisecond
Period(a) == Len(animations[a.current]) * frameDurations[a.current] * UnitsPerMs

\* history: the time handed to update since play started the animation, kept modulo the
\* period for a loop and no further than the period for a one-shot
Elapsed(a, dtMs) ==
    IF a.loop THEN (a.elapsed + dtMs) % Period(a) ELSE Min(a.elapsed + dtMs, Period(a))

\* update(dtMs), dtMs in thirds of a millisecond
AnimUpdate(a, dtMs) ==
    IF a.current \notin DOMAIN animations \/ Len(animations[a.current]) = 0 THEN a
    ELSE AdvanceFrames([a EXCEPT !.accumulator = @ + dtMs, !.elapsed = Elapsed(a, dtMs)],
                       frameDurations[a.current] * UnitsPerMs,
                       Len(animations[a.current]))

\* getFrame(): <<>> stands for null and for undefined
GetFrame(a) ==
    IF a.current \notin DOMAIN animations \/ Len(animations[a.current]) = 0 THEN <<>>
    ELSE IF a.frameIndex + 1 \in DOMAIN animations[a.current]
         THEN animations[a.current][a.frameIndex + 1]
         ELSE <<>>

-----------------------------------------------------------------------------
(* PlayerController, on p = [state, queue, x, y, anim, entered, busLog] *)

speed == 140           \* px/sec
queueCap == 12
pad == 40              \* px
logicalSize == 500     \* px

\* a queue entry: the action string, tagged with its number in emission order
Entry(action, seq) == [action |-> action, seq |-> seq]
Undefined == Entry("undefined", 0)

\* this.queue.slice(): the action strings
Slice(q) == [i \in 1..Len(q) |-> q[i].action]

\* mutant of OnAction: an action that arrives while idle starts at once
OnActionEager(p, action, seq) ==
    IF action = "" THEN p
    ELSE IF p.state = "idle" /\ p.queue = <<>>
         THEN [p EXCEPT !.state = action,
                        !.busLog = Emit(@, "PlayerController", "stateChanged", action),
                        !.anim = [current |-> action, loop |-> FALSE, frameIndex |-> 0,
                                  accumulator |-> 0, finished |-> FALSE,
                                  elapsed |-> 0]]
    ELSE LET pushed == Append(p.queue, Entry(action, seq))
         IN  [p EXCEPT !.queue = pushed,
                       !.busLog = Emit(@, "PlayerController", "queueChanged", Slice(pushed))]

\* bus.on("action", ...)
OnAction(p, action, seq) ==
    IF action = "" THEN p
    ELSE LET shifted == IF Len(p.queue) > queueCap THEN Tail(p.queue) ELSE p.queue
             pushed  == Append(shifted, Entry(action, seq))
         IN  [p EXCEPT !.queue = pushed,
                       !.busLog = Emit(@, "PlayerController", "queueChanged", Slice(pushed))]

\* mutant of EnterState: idle is played without { loop: true }
EnterStateIdleOnce(p, entry) ==
    [p EXCEPT !.state = entry.action,
              !.entered = IF entry.seq > 0 THEN Append(@, entry.seq) ELSE @,
              !.busLog = Emit(@, "PlayerController", "stateChanged", entry.action),
              !.anim = Play(@, entry.action, FALSE)]

\* _enterState(state)
EnterState(p, entry) ==
    LET q == [p EXCEPT !.state = entry.action,
                       !.entered = IF entry.seq > 0 THEN Append(@, entry.seq) ELSE @,
                       !.busLog = Emit(@, "PlayerController", "stateChanged", entry.action)]
    IN  IF entry.action = "idle"
        THEN [q EXCEPT !.anim = Play(@, "idle", TRUE)]
        ELSE [q EXCEPT !.anim = Play(@, entry.action, FALSE)]

\* mutant of OnReset: the position is not reset
OnResetKeepPosition(p) ==
    LET q == EnterState([p EXCEPT !.queue = <<>>], Entry("idle", 0))
    IN  [q EXCEPT !.busLog = Emit(@, "PlayerController", "queueChanged", Slice(q.queue))]

\* bus.on("reset", ...)
OnReset(p) ==
    LET q == EnterState([p EXCEPT !.queue = <<>>, !.x = 0, !.y = 0], Entry("idle", 0))
    IN  [q EXCEPT !.busLog = Emit(@, "PlayerController", "queueChanged", Slice(q.queue))]

\* mutant of ConsumeNextAction: queue.pop() instead of queue.shift()
ConsumeLastAction(p) ==
    LET next == IF p.queue = <<>> THEN Undefined ELSE p.queue[Len(p.queue)]
        rest == IF p.queue = <<>> THEN <<>> ELSE SubSeq(p.queue, 1, Len(p.queue) - 1)
    IN  [player |-> [p EXCEPT !.queue = rest,
                              !.busLog = Emit(@, "PlayerController", "queueChanged",
                                              Slice(rest))],
         next   |-> next]

\* _consumeNextAction(): [player, next]
ConsumeNextAction(p) ==
    LET next == IF p.queue = <<>> THEN Undefined ELSE Head(p.queue)
        rest == IF p.queue = <<>> THEN <<>> ELSE Tail(p.queue)
    IN  [player |-> [p EXCEPT !.queue = rest, !.busLog = Emit(@, "PlayerController", "queueChanged", Slice(rest))],
         next   |-> next]

\* Math.max(lo, Math.min(hi, v))
\* mutant of Clamp: no clamp
ClampNone(lo, hi, v) == v

Clamp(lo, hi, v) == Max(lo, Min(hi, v))

\* mutant of PlayerUpdate: a queued action cuts a one-shot short
PlayerUpdateInterrupting(p, dtMs, world) ==
    LET p1 == IF p.state # "idle" /\ (p.anim.finished \/ Len(p.queue) > 0)
              THEN LET c == ConsumeNextAction(p)
                   IN  EnterState(c.player, IF c.next = Undefined THEN Entry("idle", 0) ELSE c.next)
              ELSE p
        p2 == IF p1.state = "idle" /\ Len(p1.queue) > 0
              THEN LET c == ConsumeNextAction(p1)
                   IN  EnterState(c.player, c.next)
              ELSE p1
        step == (speed * UnitsPerPx * dtMs) \div (1000 * UnitsPerMs)
        x1 == IF p2.state = "forward" THEN p2.x + step ELSE p2.x
        x2 == IF p2.state = "backward" THEN x1 - step ELSE x1
        halfW == world.worldWidth \div 2
        halfH == world.worldHeight \div 2
    IN  [p2 EXCEPT !.x = Clamp(-halfW + pad * UnitsPerPx, halfW - pad * UnitsPerPx, x2),
                   !.y = Clamp(-halfH + pad * UnitsPerPx, halfH - pad * UnitsPerPx, p2.y),
                   !.anim = AnimUpdate(@, dtMs)]

\* mutant of PlayerUpdate: movement goes by the state the update began in
PlayerUpdateByOldState(p, dtMs, world) ==
    LET p1 == IF p.state # "idle" /\ p.anim.finished
              THEN LET c == ConsumeNextAction(p)
                   IN  EnterState(c.player, IF c.next = Undefined THEN Entry("idle", 0) ELSE c.next)
              ELSE p
        p2 == IF p1.state = "idle" /\ Len(p1.queue) > 0
              THEN LET c == ConsumeNextAction(p1)
                   IN  EnterState(c.player, c.next)
              ELSE p1
        step == (speed * UnitsPerPx * dtMs) \div (1000 * UnitsPerMs)
        x1 == IF p.state = "forward" THEN p2.x + step ELSE p2.x
        x2 == IF p.state = "backward" THEN x1 - step ELSE x1
        halfW == world.worldWidth \div 2
        halfH == world.worldHeight \div 2
    IN  [p2 EXCEPT !.x = Clamp(-halfW + pad * UnitsPerPx, halfW - pad * UnitsPerPx, x2),
                   !.y = Clamp(-halfH + pad * UnitsPerPx, halfH - pad * UnitsPerPx, p2.y),
                   !.anim = AnimUpdate(@, dtMs)]

\* update(dtMs, world): dtMs in thirds of a millisecond, world and x, y in thirds of a pixel
PlayerUpdate(p, dtMs, world) ==
    LET p1 == IF p.state # "idle" /\ p.anim.finished
              THEN LET c == ConsumeNextAction(p)
                   IN  EnterState(c.player, IF c.next = Undefined THEN Entry("idle", 0) ELSE c.next)
              ELSE p
        p2 == IF p1.state = "idle" /\ Len(p1.queue) > 0
              THEN LET c == ConsumeNextAction(p1)
                   IN  EnterState(c.player, c.next)
              ELSE p1
        step == (speed * UnitsPerPx * dtMs) \div (1000 * UnitsPerMs)
        x1 == IF p2.state = "forward" THEN p2.x + step ELSE p2.x
        x2 == IF p2.state = "backward" THEN x1 - step ELSE x1
        halfW == world.worldWidth \div 2
        halfH == world.worldHeight \div 2
    IN  [p2 EXCEPT !.x = Clamp(-halfW + pad * UnitsPerPx, halfW - pad * UnitsPerPx, x2),
                   !.y = Clamp(-halfH + pad * UnitsPerPx, halfH - pad * UnitsPerPx, p2.y),
                   !.anim = AnimUpdate(@, dtMs)]

-----------------------------------------------------------------------------
(* InputManager *)

Actions == {"kick", "punch", "forward", "backward", "block"}

\* _setupButtons: map, plus the reset button
buttonMap ==
    [kick |-> "kick", punch |-> "punch", forward |-> "forward", backward |-> "backward",
     block |-> "block"]

\* mutant of KeyAction: the default case falls into the case before it
KeyActionFallThrough(key) ==
    CASE key = "ArrowUp"    -> "kick"
      [] key = "ArrowDown"  -> "punch"
      [] key = "ArrowRight" -> "forward"
      [] key = "ArrowLeft"  -> "backward"
      [] OTHER              -> "block"

\* _setupKeyboard: the switch on event.key; "" when the key emits nothing
KeyAction(key) ==
    CASE key = "ArrowUp"    -> "kick"
      [] key = "ArrowDown"  -> "punch"
      [] key = "ArrowRight" -> "forward"
      [] key = "ArrowLeft"  -> "backward"
      [] key = " "          -> "block"
      [] OTHER              -> ""

\* the keys and buttons the environment presses
Keys == {"ArrowUp", "ArrowDown", "ArrowRight", "ArrowLeft", " ", "Enter"}
Buttons == (DOMAIN buttonMap) \cup {"reset"}
FineKeys == {"ArrowRight", "Enter"}
FineButtons == {"kick", "reset"}
CapKeys == {"ArrowUp"}
WalkKeys == {"ArrowRight", "ArrowLeft"}
LiveKeys == {"ArrowUp", "ArrowRight"}
LiveButtons == {"reset"}
WalkButtons == {"reset"}

-----------------------------------------------------------------------------
(* Game *)

\* this.fixedDt = 1000 / 60
fixedDt == (1000 * UnitsPerMs) \div 60

\* Math.min(100, Math.max(0, dt))
\* mutant of ClampDt: no upper clamp
ClampDtUnbounded(dt) == Max(0, dt)

ClampDt(dt) == Min(100 * UnitsPerMs, Max(0, dt))

\* mutant of UpdateDt: a variable timestep, the update gets all the accumulated time
UpdateDtVariable(acc) == acc

\* the dt handed to PlayerController.update by the fixed-update loop
UpdateDt(acc) == fixedDt

World == [worldWidth |-> logicalSize * UnitsPerPx, worldHeight |-> logicalSize * UnitsPerPx]

\* requestAnimationFrame(cb): one more callback waits for the next refresh
RequestAnimationFrame(pending) == pending + 1

\* the log entry of one player.update(dt, world) call that took the controller from p to
\* q: what the call found (pre), what it left (post) and the actions it entered
UpdateRecord(p, q, dt) ==
    [op    |-> "update", dt |-> dt, frame |-> GetFrame(q.anim), anim |-> q.anim,
     pre   |-> [state |-> p.state, finished |-> p.anim.finished, x |-> p.x, y |-> p.y],
     post  |-> [state |-> q.state, finished |-> q.anim.finished, x |-> q.x, y |-> q.y],
     enter |-> SubSeq(q.entered, Len(p.entered) + 1, Len(q.entered))]

\* the while loop of _tick on g = [player, accumulator, log]
RECURSIVE FixedUpdates(_)
FixedUpdates(g) ==
    IF g.accumulator >= fixedDt
    THEN LET q == PlayerUpdate(g.player, UpdateDt(g.accumulator), World)
         IN  FixedUpdates(
                [player      |-> q,
                 accumulator |-> g.accumulator - fixedDt,
                 log         |-> Append(g.log,
                                        UpdateRecord(g.player, q, UpdateDt(g.accumulator)))])
    ELSE g

\* mutant of RenderAndSchedule: nothing is drawn when no update ran
RenderWhenUpdated(log, a) ==
    IF log = <<>>
    THEN <<[op |-> "requestAnimationFrame", dt |-> 0, frame |-> <<>>]>>
    ELSE log \o <<[op |-> "draw", dt |-> 0, frame |-> GetFrame(a)],
                  [op |-> "requestAnimationFrame", dt |-> 0, frame |-> <<>>]>>

\* the render and reschedule part of _tick: the log after the fixed updates
RenderAndSchedule(log, a) ==
    log \o <<[op |-> "draw", dt |-> 0, frame |-> GetFrame(a)],
             [op |-> "requestAnimationFrame", dt |-> 0, frame |-> <<>>]>>

\* display timestamps (thirds of a millisecond); performance.now() shares their clock.
\* Between two of Timestamps lie half a fixed step, more than the 100 ms clamp, nothing
\* or a step backwards; between two of CoarseTimestamps more than the clamp or nothing.
Timestamps == {0, fixedDt \div 2, MaxTs}
CoarseTimestamps == {0, MaxTs}

-----------------------------------------------------------------------------
(* State *)

NoAnimationPlayer ==
    [current |-> "none", loop |-> FALSE, frameIndex |-> 0, accumulator |-> 0, finished |-> FALSE,
     elapsed |-> 0]

\* the controller as one value, with empty logs for the handler about to run
Player ==
    [state |-> state, queue |-> queue, x |-> x, y |-> y, anim |-> anim, entered |-> <<>>,
     busLog |-> <<>>]

SetPlayer(p) ==
    /\ state' = p.state
    /\ queue' = p.queue
    /\ x' = p.x
    /\ y' = p.y
    /\ anim' = p.anim
    /\ entered' = p.entered
    /\ lastEntered' = IF p.entered = <<>> THEN lastEntered ELSE p.entered[Len(p.entered)]
    /\ busLog' = p.busLog

Loader == [images |-> images, cache |-> cache, resolved |-> resolved]

SetLoader(l) ==
    /\ images' = l.images
    /\ cache' = l.cache
    /\ resolved' = l.resolved

\* no Game exists
NoGame ==
    /\ state = "none" /\ queue = <<>> /\ x = 0 /\ y = 0
    /\ anim = NoAnimationPlayer
    /\ accumulator = 0 /\ lastTs = 0 /\ rafPending = 0
    /\ emitted = 0 /\ entered = <<>> /\ lastEntered = 0 /\ busLog = <<>> /\ tickLog = <<>>

\* boot() up to its first await: the loader exists and the first frame is requested
Init ==
    LET b == LoadNext([loader |-> [images |-> <<>>, cache |-> <<>>, resolved |-> {}],
                       done |-> 0, awaiting |-> 0, text |-> ""])
    IN  /\ bootPc = "loading"
        /\ images = b.loader.images /\ cache = b.loader.cache /\ resolved = b.loader.resolved
        /\ done = b.done /\ awaiting = b.awaiting /\ loadingText = b.text
        /\ loadingShown = TRUE
        /\ calls = 0
        /\ NoGame
        /\ last = [src |-> "boot", arg |-> ""]

\* new Game({ canvas, animations }) followed by game.start(); now is performance.now()
StartGame(now) ==
    /\ SetPlayer(EnterState([state |-> "idle", queue |-> <<>>, x |-> 0, y |-> 0,
                             anim |-> NewAnimationPlayer, entered |-> <<>>,
                             busLog |-> <<>>],
                            Entry("idle", 0)))
    /\ accumulator' = 0
    /\ lastTs' = now
    /\ rafPending' = RequestAnimationFrame(0)
    /\ UNCHANGED <<emitted, tickLog>>

-----------------------------------------------------------------------------
(* Actions *)

\* img.onload fires; when boot's loadAnimations awaits this image it resumes, and after
\* the last frame boot hides the loading text, constructs the Game and starts it
ImageLoaded(img) ==
    /\ img \in DOMAIN images
    /\ images[img].status = "loading"
    /\ LET l == ImgOnLoad(Loader, img)
       IN  IF bootPc = "loading" /\ awaiting = img
           THEN LET b == ResumeLoad([loader |-> l, done |-> done, awaiting |-> 0,
                                     text |-> loadingText])
                IN  /\ SetLoader(b.loader)
                    /\ done' = b.done
                    /\ awaiting' = b.awaiting
                    /\ loadingText' = b.text
                    /\ IF b.awaiting = 0
                       THEN /\ loadingShown' = FALSE
                            /\ bootPc' = "running"
                            /\ \E now \in Timestamps : StartGame(now)
                       ELSE UNCHANGED <<bootPc, loadingShown, playerVars, gameVars,
                                        emitted, busLog, tickLog>>
           ELSE /\ SetLoader(l)
                /\ UNCHANGED <<bootVars, playerVars, gameVars, emitted, busLog, tickLog>>
    /\ last' = [src |-> "load", arg |-> ""]
    /\ UNCHANGED calls

\* img.onerror fires; when boot's loadAnimations awaits this image it rejects and boot's
\* catch shows the failure text
ImageFailed(img) ==
    /\ img \in DOMAIN images
    /\ images[img].status = "loading"
    /\ SetLoader(ImgOnError(Loader, img))
    /\ IF bootPc = "loading" /\ awaiting = img
       THEN /\ bootPc' = "failed"
            /\ awaiting' = 0
            /\ loadingText' = FailureText
            /\ UNCHANGED <<done, loadingShown>>
       ELSE UNCHANGED bootVars
    /\ last' = [src |-> "error", arg |-> ""]
    /\ UNCHANGED <<calls, playerVars, gameVars, emitted, busLog, tickLog>>

\* a client of the loader calls loadImage(url) directly
CallLoadImage(url) ==
    /\ bootPc = "library"
    /\ calls < MaxCalls
    /\ calls' = calls + 1
    /\ SetLoader(LoadImage(Loader, url).loader)
    /\ last' = [src |-> "call", arg |-> ""]
    /\ UNCHANGED <<bootVars, playerVars, gameVars, emitted, busLog, tickLog>>

\* document keydown listener; budget bounds the number of emitted actions
KeyDown(key, budget) ==
    /\ bootPc = "running"
    /\ LET action == KeyAction(key)
       IN  IF action = ""
           THEN /\ SetPlayer(Player)
                /\ UNCHANGED emitted
           ELSE /\ emitted < budget
                /\ emitted' = emitted + 1
                /\ SetPlayer(OnAction([Player EXCEPT !.busLog =
                                          Emit(@, "InputManager", "action", action)],
                                      action, emitted + 1))
    /\ last' = [src |-> "key", arg |-> key]
    /\ tickLog' = <<>>
    /\ UNCHANGED <<loaderVars, bootVars, gameVars>>

\* click listener of the button with the given id
Click(id, budget) ==
    /\ bootPc = "running"
    /\ IF id \in DOMAIN buttonMap
       THEN /\ emitted < budget
            /\ emitted' = emitted + 1
            /\ SetPlayer(OnAction([Player EXCEPT !.busLog =
                                      Emit(@, "InputManager", "action", buttonMap[id])],
                                  buttonMap[id], emitted + 1))
       ELSE /\ id = "reset"
            /\ SetPlayer(OnReset([Player EXCEPT !.busLog =
                                     Emit(@, "InputManager", "reset", "")]))
            /\ UNCHANGED emitted
    /\ last' = [src |-> "click", arg |-> id]
    /\ tickLog' = <<>>
    /\ UNCHANGED <<loaderVars, bootVars, gameVars>>

\* the number of requestAnimationFrame calls in a tick log
Scheduled(log) == Cardinality({i \in DOMAIN log : log[i].op = "requestAnimationFrame"})

\* _tick(ts), run by the browser for one pending requestAnimationFrame callback
Tick(ts) ==
    /\ bootPc = "running"
    /\ rafPending > 0
    /\ LET dt == ts - lastTs
           clampedDt == ClampDt(dt)
           g == FixedUpdates([player |-> Player, accumulator |-> accumulator + clampedDt,
                              log |-> <<>>])
           log == RenderAndSchedule(g.log, g.player.anim)
       IN  /\ SetPlayer(g.player)
           /\ accumulator' = g.accumulator
           /\ tickLog' = log
           /\ rafPending' = (rafPending - 1) + Scheduled(log)
    /\ lastTs' = ts
    /\ last' = [src |-> "tick", arg |-> ""]
    /\ UNCHANGED <<loaderVars, bootVars, emitted>>

-----------------------------------------------------------------------------
(* Specifications *)

\* the page: boot, then the game under display refreshes that come early, late, twice
\* or out of order, with two keys and two buttons
Loads == \E img \in DOMAIN images : ImageLoaded(img)
LoadErrors == \E img \in DOMAIN images : ImageFailed(img)
KeyPresses == \E key \in FineKeys : KeyDown(key, MaxEmits)
Clicks == \E id \in FineButtons : Click(id, MaxEmits)
Ticks == \E ts \in Timestamps : Tick(ts)

Next == Loads \/ LoadErrors \/ KeyPresses \/ Clicks \/ Ticks

Spec == Init /\ [][Next]_vars

\* the page under a slow display (every refresh is late or repeats a timestamp), with
\* every key and button and room for a second action while the first one plays
QueueKeyPresses == \E key \in Keys : KeyDown(key, MaxQueueEmits)
QueueClicks == \E id \in Buttons : Click(id, MaxQueueEmits)
CoarseTicks == \E ts \in CoarseTimestamps : Tick(ts)

NextQueue == Loads \/ LoadErrors \/ QueueKeyPresses \/ QueueClicks \/ CoarseTicks

SpecQueue == Init /\ [][NextQueue]_vars

\* the page under a slow display and one action key, with room to fill the queue
CapKeyPresses == \E key \in CapKeys : KeyDown(key, MaxCapEmits)

NextCap == Loads \/ LoadErrors \/ CapKeyPresses \/ CoarseTicks

SpecCap == Init /\ [][NextCap]_vars

\* the page under enough presses of the two walking keys to cross the world, and reset
WalkKeyPresses == \E key \in WalkKeys : KeyDown(key, MaxWalkEmits)
WalkClicks == \E id \in WalkButtons : Click(id, MaxWalkEmits)

NextWalk == Loads \/ LoadErrors \/ WalkKeyPresses \/ WalkClicks \/ CoarseTicks

SpecWalk == Init /\ [][NextWalk]_vars

\* the page under display refreshes that keep coming. requestAnimationFrame hands every
\* tick's successor to the display (the last line of _tick), which calls it on a clock
\* that advances; on the wrapped clock of CoarseTimestamps that is: whenever a tick with
\* timestamp ts is due and would move the clock, one eventually runs. TickClock(ts) is
\* what Tick(ts) does to lastTs and last, the part of the step this fairness is about.
TickClock(ts) ==
    /\ bootPc = "running"
    /\ rafPending > 0
    /\ lastTs' = ts
    /\ last' = [src |-> "tick", arg |-> ""]

TicksKeepRunning == \A ts \in CoarseTimestamps : WF_<<lastTs, last>>(TickClock(ts))

LiveKeyPresses == \E key \in LiveKeys : KeyDown(key, MaxLiveEmits)
LiveClicks == \E id \in LiveButtons : Click(id, MaxLiveEmits)

NextLive == Loads \/ LoadErrors \/ LiveKeyPresses \/ LiveClicks \/ CoarseTicks

SpecLive == Init /\ [][NextLive]_vars /\ TicksKeepRunning

\* the loader alone, under a client that calls loadImage while loads are in flight
LoaderUrls == {Url("idle", 1), Url("idle", 2)}

InitLoader ==
    /\ bootPc = "library"
    /\ images = <<>> /\ cache = <<>> /\ resolved = {}
    /\ done = 0 /\ awaiting = 0 /\ loadingText = "" /\ loadingShown = TRUE
    /\ calls = 0
    /\ NoGame
    /\ last = [src |-> "new", arg |-> ""]

LoaderCalls == \E url \in LoaderUrls : CallLoadImage(url)

NextLoader == LoaderCalls \/ Loads \/ LoadErrors

SpecLoader == InitLoader /\ [][NextLoader]_vars

\* an AnimationPlayer alone, constructed over the loaded animations, under a client that
\* calls play and update in any order and with steps shorter and longer than a frame
AnimationNames == (DOMAIN animations) \cup {"jump"}
UpdateSteps == {fixedDt, 250 * UnitsPerMs}

InitAnim ==
    /\ bootPc = "library"
    /\ images = <<>> /\ cache = <<>> /\ resolved = {}
    /\ done = 0 /\ awaiting = 0 /\ loadingText = "" /\ loadingShown = TRUE
    /\ calls = 0
    /\ state = "none" /\ queue = <<>> /\ x = 0 /\ y = 0
    /\ anim = NewAnimationPlayer
    /\ accumulator = 0 /\ lastTs = 0 /\ rafPending = 0
    /\ emitted = 0 /\ entered = <<>> /\ lastEntered = 0 /\ busLog = <<>> /\ tickLog = <<>>
    /\ last = [src |-> "new", arg |-> ""]

\* anim.play(animation, { loop })
CallPlay(animation, loop) ==
    /\ bootPc = "library"
    /\ anim' = Play(anim, animation, loop)
    /\ last' = [src |-> "play", arg |-> animation]
    /\ UNCHANGED <<loaderVars, bootVars, state, queue, x, y, entered, lastEntered, gameVars,
                   emitted, busLog, tickLog>>

\* anim.update(dtMs)
CallUpdate(dtMs) ==
    /\ bootPc = "library"
    /\ anim.accumulator <= MaxAccumulator
    /\ anim' = AnimUpdate(anim, dtMs)
    /\ last' = [src |-> "update", arg |-> ""]
    /\ UNCHANGED <<loaderVars, bootVars, state, queue, x, y, entered, lastEntered, gameVars,
                   emitted, busLog, tickLog>>

Plays == \E animation \in AnimationNames, loop \in BOOLEAN : CallPlay(animation, loop)
AnimUpdates == \E dtMs \in UpdateSteps : CallUpdate(dtMs)

NextAnim == Plays \/ AnimUpdates

SpecAnim == InitAnim /\ [][NextAnim]_vars

-----------------------------------------------------------------------------
(* Claims *)

Running == bootPc = "running"
ResetClicked == last.src = "click" /\ last.arg = "reset"
ActionKeys == {"ArrowUp", "ArrowDown", "ArrowRight", "ArrowLeft", " "}
SixStates == {"idle"} \cup Actions
Updates(log) == {i \in DOMAIN log : log[i].op = "update"}

\* C1: the queue never holds more than 12 entries, the cap written in the action
\* handler, after any sequence of action events and fixed updates.
QueueWithinCap == Running => Len(queue) <= queueCap

\* C2: actions are executed in FIFO order. Every tick enters the actions it consumes in
\* queue order, starting at the head of the queue and leaving the rest of the queue as
\* it was, the controller state is the action consumed last, and every action entered
\* was emitted after the action entered before it.
FifoOrder ==
    [][(Running /\ last'.src = "tick") =>
          LET k == Len(entered')
          IN  /\ k <= Len(queue)
              /\ \A i \in 1..k : entered'[i] = queue[i].seq
              /\ queue' = SubSeq(queue, k + 1, Len(queue))
              /\ k > 0 => state' = queue[k].action
              /\ \A i \in 1..k :
                    entered'[i] > (IF i = 1 THEN lastEntered ELSE entered'[i - 1])]_vars

\* C2 witness: a tick has entered the first of two queued actions of different kinds and
\* the second one is still waiting.
FifoWitness ==
    /\ last.src = "tick"
    /\ entered = <<1>>
    /\ Len(queue) = 1
    /\ queue[1].seq = 2
    /\ queue[1].action # state

\* C3: the controller state is one of the six states and the animation player agrees
\* with it: it plays the state's animation, loops exactly in idle, and is never finished
\* in idle.
StateAnimAgree ==
    Running =>
        /\ state \in SixStates
        /\ anim.current = state
        /\ anim.loop <=> (state = "idle")
        /\ ~(state = "idle" /\ anim.finished)

\* C3 witness: the second action emitted, a kick, is playing, past its first frame.
StateAnimWitness ==
    /\ state = "kick"
    /\ lastEntered = 2
    /\ anim.frameIndex > 0
    /\ ~anim.finished

\* C4: right after the reset handler the queue is empty, the character is at the
\* origin, the state is idle and the player plays idle, looping and not finished.
ResetRecenters ==
    ResetClicked =>
        /\ queue = <<>>
        /\ x = 0 /\ y = 0
        /\ state = "idle"
        /\ anim.current = "idle" /\ anim.loop /\ ~anim.finished

\* C4 witness: a reset that discarded the second action emitted, still queued, after
\* the first one had been entered.
ResetWitness ==
    /\ ResetClicked
    /\ lastEntered = 1
    /\ emitted = 2

\* C5: every update of a tick receives dt = fixedDt, and after every tick the
\* scheduler accumulator is in [0, fixedDt).
FixedTimestep ==
    Running =>
        /\ \A i \in Updates(tickLog) : tickLog[i].dt = fixedDt
        /\ 0 <= accumulator /\ accumulator < fixedDt

\* C5 witness: a tick that came late ran several updates and left a remainder.
FixedTimestepWitness ==
    /\ last.src = "tick"
    /\ Cardinality(Updates(tickLog)) > 1
    /\ accumulator > 0

\* C6: every tick draws exactly once and schedules exactly one following tick, after all
\* of its updates, whatever their number; so one tick is pending at any time.
OneDrawPerTick ==
    /\ Running => rafPending = 1
    /\ last.src = "tick" =>
          LET n == Len(tickLog)
          IN  /\ n >= 2
              /\ \A i \in 1..(n - 2) : tickLog[i].op = "update"
              /\ tickLog[n - 1].op = "draw"
              /\ tickLog[n].op = "requestAnimationFrame"

\* C6 witness: a tick that ran no update and still drew and rescheduled.
OneDrawWitness ==
    /\ last.src = "tick"
    /\ Updates(tickLog) = {}
    /\ Len(tickLog) = 2

\* C7: at most one image load is started for each url, and all loadImage calls for a
\* url resolve to the same image object, whatever the interleaving of calls and load
\* completions.
LoadedOnce ==
    /\ \A i, j \in DOMAIN images : images[i].url = images[j].url => i = j
    /\ \A r1, r2 \in resolved : r1[1] = r2[1] => r1[2] = r2[2]

\* C8: when a frame fails to load, boot ends there: the failed frame is the last one
\* requested and is not cached, the failure text is shown, and no Game exists and no
\* tick runs; the game runs only once every frame of the six animations is loaded.
BootFailure ==
    /\ bootPc = "failed" =>
          /\ loadingText = FailureText
          /\ loadingShown
          /\ images[Len(images)].status = "failed"
          /\ Len(images) = done + 1
          /\ images[Len(images)].url \notin DOMAIN cache
          /\ awaiting = 0
          /\ NoGame
          /\ last.src # "tick"
    /\ bootPc = "loading" => NoGame
    /\ Running =>
          /\ done = total
          /\ \A a \in DOMAIN frames : \A i \in DOMAIN frames[a] :
                /\ Url(a, frames[a][i]) \in DOMAIN cache
                /\ images[cache[Url(a, frames[a][i])]].status = "loaded"

\* C8 witness: the load of a frame of the third animation failed.
BootFailureWitness ==
    /\ bootPc = "failed"
    /\ images[Len(images)].url[1] = "punch"

\* C9: every event a key press or a button click puts on the bus is an 'action' event
\* with one of the five actions as payload; other keys emit nothing.
InputOnlyActions ==
    /\ \A i \in DOMAIN busLog :
          busLog[i].by = "InputManager" =>
              busLog[i].name = "action" /\ busLog[i].payload \in Actions
    /\ (last.src = "key" /\ last.arg \notin ActionKeys) => busLog = <<>>

\* C9, amended: every event a key press or a button click puts on the bus is an
\* 'action' event with one of the five actions as payload, or the 'reset' event of the
\* reset button; a handler emits at most one of them, and other keys emit nothing.
InputActionsOrReset ==
    /\ \A i \in DOMAIN busLog :
          busLog[i].by = "InputManager" =>
              /\ i = 1
              /\ last.src \in {"key", "click"}
              /\ IF ResetClicked
                 THEN busLog[i].name = "reset"
                 ELSE busLog[i].name = "action" /\ busLog[i].payload \in Actions
    /\ (last.src = "key" /\ last.arg \notin ActionKeys) => busLog = <<>>

\* C9 witness: the space key has put the action 'block' on the bus.
InputWitness ==
    /\ last.src = "key" /\ last.arg = " "
    /\ busLog # <<>>
    /\ busLog[1].by = "InputManager" /\ busLog[1].payload = "block"

\* C10: an 'action' event only enqueues: the action becomes the last entry of the queue,
\* in front of it stays the old queue (without its head when the queue was full), and
\* queueChanged is emitted with the new queue; the controller state, the animation
\* player and the position are left alone. The controller state changes only in a tick
\* that runs a fixed update, or in a reset.
ActionOnlyEnqueues ==
    /\ [][(Running /\ last'.src \in {"key", "click"} /\ ~ResetClicked') =>
             /\ state' = state /\ anim' = anim /\ x' = x /\ y' = y
             /\ busLog' # <<>> =>
                   /\ queue' # <<>>
                   /\ queue'[Len(queue')].action = busLog'[1].payload
                   /\ \E k \in {0, 1} :
                         SubSeq(queue', 1, Len(queue') - 1) = SubSeq(queue, k + 1, Len(queue))
                   /\ Len(busLog') = 2
                   /\ busLog'[2].name = "queueChanged"
                   /\ busLog'[2].payload = Slice(queue')]_vars
    /\ [][(Running /\ state' # state) =>
             \/ last'.src = "tick" /\ Updates(tickLog') # {}
             \/ ResetClicked']_vars

\* C10 witness: an action arrived while the character was walking forward, away from
\* the origin and past the first frame.
ActionWitness ==
    /\ last.src \in {"key", "click"}
    /\ busLog # <<>> /\ busLog[1].name = "action"
    /\ state = "forward" /\ x > 0 /\ anim.frameIndex > 0
    /\ Len(queue) = 1

\* C11: a one-shot is never interrupted by input. An update that finds the controller
\* in a non-idle state changes the state or enters an action only if the animation was
\* finished when the update began; an action emitted in a non-idle state leaves state
\* and animation alone and is queued; and the state is left in a reset or in a tick
\* with such an update, nowhere else.
OneShotNotInterrupted ==
    /\ [](Running =>
            \A i \in Updates(tickLog) :
                (/\ tickLog[i].pre.state # "idle"
                 /\ \/ tickLog[i].post.state # tickLog[i].pre.state
                    \/ tickLog[i].enter # <<>>)
                => tickLog[i].pre.finished)
    /\ [][(/\ Running /\ state # "idle"
           /\ last'.src \in {"key", "click"} /\ ~ResetClicked'
           /\ busLog' # <<>>) =>
             /\ state' = state /\ anim' = anim
             /\ queue' # <<>> /\ queue'[Len(queue')].seq = emitted']_vars
    /\ [][(Running /\ state # "idle" /\ state' # state) =>
             \/ ResetClicked'
             \/ /\ last'.src = "tick"
                /\ \E i \in Updates(tickLog') :
                      /\ tickLog'[i].pre.state = state
                      /\ tickLog'[i].pre.finished
                      /\ tickLog'[i].post.state # state]_vars

\* C11 witness: the action emitted second waited in the queue and is entered by an
\* update that found the first one-shot finished.
OneShotWitness ==
    /\ last.src = "tick"
    /\ \E i \in Updates(tickLog) :
          /\ tickLog[i].pre.state \notin {"idle", tickLog[i].post.state}
          /\ tickLog[i].pre.finished
          /\ tickLog[i].enter = <<2>>

\* the lengths C12 names, in ms
OneShotLength ==
    [kick |-> 7 * 90, punch |-> 7 * 90, forward |-> 6 * 80, backward |-> 6 * 80,
     block |-> 6 * 100]

\* C12: frame advance is exact in time. A one-shot of N frames of duration D is finished
\* exactly when the time handed to update since play has reached N*D (the lengths of
\* OneShotLength for the five actions), it then shows frame N-1 and before that frame
\* floor(time / D); a loop is never finished and shows frame floor(time / D) mod N.
FrameAdvanceExact ==
    anim.current \in DOMAIN animations =>
        LET N == Len(animations[anim.current])
            D == frameDurations[anim.current] * UnitsPerMs
        IN  /\ anim.current \in Actions => N * D = OneShotLength[anim.current] * UnitsPerMs
            /\ IF anim.loop
               THEN /\ ~anim.finished
                    /\ anim.frameIndex = (anim.elapsed \div D) % N
               ELSE /\ anim.finished <=> anim.elapsed >= N * D
                    /\ anim.finished => anim.frameIndex = N - 1
                    /\ ~anim.finished => anim.frameIndex = anim.elapsed \div D

\* C12 witness: an update has just finished the one-shot block, at 600 ms to the step.
FrameAdvanceWitness ==
    /\ last.src = "update"
    /\ anim.current = "block" /\ ~anim.loop /\ anim.finished
    /\ anim.elapsed = 600 * UnitsPerMs /\ anim.accumulator = 0
    /\ anim.frameIndex = 5

\* C13: an action that arrives while the queue holds its cap of 12 entries discards
\* exactly the oldest entry and goes to the tail: the queue keeps its length, the other
\* entries keep their order and the new action is the last entry.
DropsOldestAtCap ==
    [][(Running /\ Len(queue) = queueCap /\ emitted' = emitted + 1) =>
          /\ Len(queue') = Len(queue)
          /\ SubSeq(queue', 1, Len(queue') - 1) = Tail(queue)
          /\ queue'[Len(queue')].seq = emitted']_vars

\* C14: the catch-up work of one tick is bounded. The time a tick adds to the
\* accumulator (what its updates took off plus what the accumulator gained) is the time
\* since the last timestamp clamped to 0..100 ms, so 0 when the timestamp did not
\* advance, and the tick runs at most 6 updates.
BoundedCatchUp ==
    [][(Running /\ last'.src = "tick") =>
          LET n == Cardinality(Updates(tickLog'))
              added == (accumulator' + n * fixedDt) - accumulator
              dt == lastTs' - lastTs
          IN  /\ 0 <= added /\ added <= 100 * UnitsPerMs
              /\ dt <= 0 => added = 0
              /\ dt \in 0..(100 * UnitsPerMs) => added = dt
              /\ dt >= 100 * UnitsPerMs => added = 100 * UnitsPerMs
              /\ n <= 6]_vars

\* C14 witness: a tick whose timestamp lies more than 100 ms after the last one and that
\* found half a step in the accumulator ran 6 updates and kept the half step.
BoundedCatchUpWitness ==
    /\ last.src = "tick"
    /\ lastTs = MaxTs
    /\ Cardinality(Updates(tickLog)) = 6
    /\ accumulator = fixedDt \div 2

\* the clamp C15 names, in px
XLimit == 210

\* C15: the character stays in the world. After every update and after every reset,
\* -210 <= x <= 210 and y = 0.
StaysInWorld ==
    Running =>
        /\ -XLimit * UnitsPerPx <= x /\ x <= XLimit * UnitsPerPx
        /\ y = 0
        /\ \A i \in Updates(tickLog) :
              /\ -XLimit * UnitsPerPx <= tickLog[i].post.x
              /\ tickLog[i].post.x <= XLimit * UnitsPerPx
              /\ tickLog[i].post.y = 0

\* C15 witness: an update walks forward from the right edge and is held there.
StaysInWorldWitness ==
    /\ last.src = "tick"
    /\ \E i \in Updates(tickLog) :
          /\ tickLog[i].post.state = "forward"
          /\ tickLog[i].pre.x = XLimit * UnitsPerPx
          /\ tickLog[i].post.x = XLimit * UnitsPerPx

\* speed * dt of an update, in thirds of a pixel
Stride(dt) == (speed * UnitsPerPx * dt) \div (1000 * UnitsPerMs)

\* C16: position moves only while moving. An update that ends its transition step in
\* forward adds speed*dt to x, one that ends it in backward takes speed*dt off x, both
\* before the clamp to the world; an update that ends it in idle, kick, punch or block
\* leaves x as it was; no update changes y.
MovesOnlyWhileMoving ==
    Running =>
        \A i \in Updates(tickLog) :
            LET u == tickLog[i]
                lo == -XLimit * UnitsPerPx
                hi == XLimit * UnitsPerPx
            IN  /\ u.post.y = u.pre.y
                /\ u.post.state = "forward" =>
                      u.post.x = Max(lo, Min(hi, u.pre.x + Stride(u.dt)))
                /\ u.post.state = "backward" =>
                      u.post.x = Max(lo, Min(hi, u.pre.x - Stride(u.dt)))
                /\ u.post.state \in {"idle", "kick", "punch", "block"} =>
                      u.post.x = u.pre.x

\* C16 witness: the update that leaves idle for backward already moves, by 7/3 px.
MovesWitness ==
    /\ last.src = "tick"
    /\ \E i \in Updates(tickLog) :
          /\ tickLog[i].pre.state = "idle" /\ tickLog[i].post.state = "backward"
          /\ tickLog[i].post.x = tickLog[i].pre.x - 7

\* the frame index of the player a is an index of its current animation and getFrame
\* returns the image at that index, which the loader has loaded
FrameLoaded(a) ==
    /\ a.current \in DOMAIN animations
    /\ 0 <= a.frameIndex /\ a.frameIndex < Len(animations[a.current])
    /\ GetFrame(a) # <<>>
    /\ GetFrame(a) = Url(a.current, frames[a.current][a.frameIndex + 1])
    /\ GetFrame(a) \in DOMAIN cache
    /\ images[cache[GetFrame(a)]].status = "loaded"

\* C18: in every state of the running game, after every single update and in every
\* draw, 0 <= anim.frameIndex < the number of frames of anim.current and getFrame
\* returns a loaded image of the current animation.
FrameIndexInRange ==
    Running =>
        /\ FrameLoaded(anim)
        /\ \A i \in Updates(tickLog) :
              FrameLoaded(tickLog[i].anim) /\ tickLog[i].frame = GetFrame(tickLog[i].anim)
        /\ \A i \in DOMAIN tickLog :
              tickLog[i].op = "draw" => tickLog[i].frame = GetFrame(anim)

\* C18 witness: an update finds the 7-frame kick or punch finished, on its last frame,
\* and switches to a 6-frame animation, which shows its first frame.
FrameIndexWitness ==
    /\ last.src = "tick"
    /\ \E i \in Updates(tickLog) :
          /\ tickLog[i].pre.state \in {"kick", "punch"} /\ tickLog[i].pre.finished
          /\ tickLog[i].post.state \in {"forward", "backward", "block"}
          /\ tickLog[i].anim.current = tickLog[i].post.state
          /\ tickLog[i].anim.frameIndex = 0
          /\ tickLog[i].frame = Url(tickLog[i].post.state, 1)

\* a step that emits neither an action nor a reset
Quiet == emitted' = emitted /\ ~ResetClicked'

QueuedSeqs(q) == {q[i].seq : i \in DOMAIN q}
EnteredSeqs(e) == {e[i] : i \in DOMAIN e}

\* C17: the controller returns to rest. If from some point on no action and no reset
\* is emitted, and ticks keep running, then eventually the controller is idle with an
\* empty queue and stays so; and on the way no queued action is lost: without an
\* emission an entry leaves the queue only in a step that enters it as the state.
ReturnsToRest ==
    /\ (<>[][Quiet]_vars) => <>[](Running => state = "idle" /\ queue = <<>>)
    /\ [][(Running /\ Quiet) =>
             (QueuedSeqs(queue) \ QueuedSeqs(queue')) \subseteq EnteredSeqs(entered')]_vars

\* C17 witness: two actions were emitted, both have been entered, and a tick has brought
\* the controller from the second one-shot back to idle with an empty queue.
ReturnsToRestWitness ==
    /\ last.src = "tick"
    /\ emitted = 2 /\ lastEntered = 2
    /\ state = "idle" /\ queue = <<>>
    /\ \E i \in Updates(tickLog) :
          tickLog[i].pre.state # "idle" /\ tickLog[i].post.state = "idle"

====
